---- MODULE Spec2Model ----
(***************************************************************************)
(* Weigh-bridge device layer: the serial feed manager (SerialService) of   *)
(* services/serialService.js with its stability filter, simulation         *)
(* generator, reconnect poll and WebSocket broadcast, the settings route   *)
(* that hot-reloads it, the print dispatch of services/printerService.js  *)
(* (local queue, RAW socket and PDF printing, the reachability probe) and  *)
(* the weighing routes of routes/bills.js.                                 *)
(* Weights are whole kilograms.                                            *)
(***************************************************************************)
EXTENDS Integers, Sequences, FiniteSets, TLC

\* ------------------------------------------------------------ constants

\* weightBuffer capacity: "if (this.weightBuffer.length > 5) shift()"
BufferCap == 5
\* stability band: "Math.abs(w - avg) < 5"
StableBand == 5
\* parseWeight range check: "w >= 0 && w < 200000"
MaxWeight == 200000
\* simulation baseline: "let base = 39170"
SimBaseline == 39170
\* default baud rate of initialize/reconnect
DefaultBaud == 9600

\* ------------------------------------------------------------ bounds

\* transports (SerialPort objects) that can be alive at once
MaxTransports == 3
\* samples ingested in the connection specification
MaxSamples == 3
\* WebSocket connections accepted in the broadcast specification
MaxClients == 2
\* weight events generated while a subscriber is registered
MaxEvents == 4
\* largest "copies" of a print request
MaxCopies == 2
\* milliseconds the clock (Date.now()) advances in the printing specifications
MaxClock == 1

\* ------------------------------------------------------------ inputs

Null == "null"
\* a path the SerialPort constructor rejects ('"path" is not defined'); no
\* caller passes it: server.js defaults the path and the settings route
\* answers 400 without one
BadPath == ""
ValidPaths == {"COM3", "COM4"}
\* the (path, baud) pairs a caller configures
Configs == {<<"COM3", DefaultBaud>>, <<"COM4", 2 * DefaultBaud>>}
Slots == 1 .. MaxTransports

\* A received line, as far as /[\+\-]?(\d+\.?\d*)/ sees it: whether it holds a
\* digit at all, the sign in front of the first run of digits and the number
\* the digits spell.
Line(sign, num) == [match |-> TRUE, sign |-> sign, num |-> num]
NoNumberLine == [match |-> FALSE, sign |-> "", num |-> 0]

\* the spike of the stability scenario: 20 above the plateau
SpikeHeight == 4 * StableBand
\* lines of the filter specification: a plateau, one above it, a boundary
\* triple (p, p+5, p+10) and a spike
LinesFilter ==
  {Line("", SimBaseline + d) : d \in {0, 1, StableBand, 2 * StableBand, SpikeHeight}}
\* lines the indicator sends in the connection specification
LinesMain == {Line("+", SimBaseline + 2 * SpikeHeight)}
\* lines of the parsing specification: README "-00500 Kg"-style negative
\* reading, a reading at the upper limit, a signed reading and a line
\* without digits
LinesParse ==
  {Line("-", 100 * StableBand), Line("", MaxWeight), Line("+", SimBaseline),
   NoNumberLine}
\* the WebSocket connections the server accepts, each used once
Clients == 1 .. MaxClients
\* the print requests (POST /api/printer/print/:id) and their options
Reqs == {"reqA", "reqB"}
Modes == {"local", "ip"}
CopyCounts == 1 .. MaxCopies
\* every printerType of printBill
AllModes == {"local", "ip", "pdf", "html"}
\* the bills a print request names: the bill number stands for the text
\* fields of the bill, camera1Image for its camera image data
NoImage == "null"
PrintBills ==
  {[billNo |-> 1, camera1Image |-> NoImage],
   [billNo |-> 2, camera1Image |-> "data:image/jpeg"]}
NoBill == [billNo |-> 0, camera1Image |-> NoImage]
\* the calls of POST /api/printer/test-ip under way
ProbeIds == {"probeA", "probeB", "probeC"}
\* the bills of the collection and the weights a request body carries; a
\* body without weight and a body with weight 0 are both falsy
BillIds == {"billA", "billB"}
BodyWeights == {0, SimBaseline, SimBaseline \div 2}
\* the bodies of PATCH /api/bills/:id: a status, a grossWeight.value, a
\* tareWeight.value and a netWeight, each of which may be absent
Absent == 0 - MaxWeight - 1
NoStatus == "absent"
Patches ==
  [status : {NoStatus, "pending", "completed"},
   gross : {Absent, SimBaseline},
   tare : {Absent, SimBaseline \div 2},
   net : {Absent, 1}]
\* Math.floor(Math.random() * 20 - 10) ranges over -10 .. 9; the draws used
NoiseMain == {0}
NoiseWalk == {9}

\* ------------------------------------------------------------ state

VARIABLES
  port,             \* this.port: slot of the SerialPort held, 0 for null
  isConnected,      \* this.isConnected
  isSimulation,     \* this.isSimulation
  portPath,         \* this.portPath
  baudRate,         \* this.baudRate
  weightBuffer,     \* this.weightBuffer
  currentWeight,    \* this.currentWeight
  stableWeight,     \* this.stableWeight
  simInterval,      \* this.simInterval # null
  reconnectTimer,   \* this.reconnectTimer # null
  reconnectActive,  \* this.reconnectActive
  simBase,          \* "base" of the simulation closure
  tr,               \* the SerialPort objects: slot -> [path, baud, st]
  pollQuery,        \* path of the pending "await _isPortAvailable", or Null
  lastUpdate,       \* the last message handed to broadcastWeight, or NoUpdate
  bufSrc,           \* history: the feed each weightBuffer entry came from
  spikeAt,          \* history: index in weightBuffer of a spike, 0 if none
  lastOp,           \* history: the entry point that ran last
  wsClients,        \* this.wsClients
  wsState,          \* each WebSocket: "none", "open", "closing" or "gone"
  inbox,            \* the messages sent on each WebSocket, in send order
  pubLog,           \* history: the weight events generated while a
                    \* subscriber is registered, in generation order
  pr,               \* the print requests: request -> its progress record
  now,              \* Date.now()
  probe,            \* the testIPPrinter calls: probe -> its progress record
  bills,            \* the WeighBill collection: id -> document
  billResp          \* history: the last answer of a bills route

vars == <<port, isConnected, isSimulation, portPath, baudRate, weightBuffer,
          currentWeight, stableWeight, simInterval, reconnectTimer,
          reconnectActive, simBase, tr, pollQuery, lastUpdate, bufSrc, spikeAt,
          lastOp, wsClients, wsState, inbox, pubLog, pr, now, probe, bills,
          billResp>>

\* the variables of the serial service, those of the printer service aside
serialVars ==
  <<port, isConnected, isSimulation, portPath, baudRate, weightBuffer,
    currentWeight, stableWeight, simInterval, reconnectTimer, reconnectActive,
    simBase, tr, pollQuery, lastUpdate, bufSrc, spikeAt, lastOp, wsClients,
    wsState, inbox, pubLog>>
\* the variables of the printer service and those of the bills routes
printVars == <<pr, now, probe>>
billVars == <<bills, billResp>>

NoUpdate == [weight |-> 0, stable |-> FALSE, stableWeight |-> 0,
             simulation |-> FALSE, sent |-> FALSE]
NoTransport == [path |-> Null, baud |-> 0, st |-> "none"]

\* The service object (and its environment) as one value, so that a handler
\* is the composition of the methods it calls.
Self ==
  [port |-> port, isConnected |-> isConnected, isSimulation |-> isSimulation,
   portPath |-> portPath, baudRate |-> baudRate, weightBuffer |-> weightBuffer,
   currentWeight |-> currentWeight, stableWeight |-> stableWeight,
   simInterval |-> simInterval, reconnectTimer |-> reconnectTimer,
   reconnectActive |-> reconnectActive, simBase |-> simBase, tr |-> tr,
   pollQuery |-> pollQuery, lastUpdate |-> lastUpdate, bufSrc |-> bufSrc,
   spikeAt |-> spikeAt, wsClients |-> wsClients, wsState |-> wsState,
   inbox |-> inbox, pubLog |-> pubLog]

Commit(s) ==
  /\ port' = s.port
  /\ isConnected' = s.isConnected
  /\ isSimulation' = s.isSimulation
  /\ portPath' = s.portPath
  /\ baudRate' = s.baudRate
  /\ weightBuffer' = s.weightBuffer
  /\ currentWeight' = s.currentWeight
  /\ stableWeight' = s.stableWeight
  /\ simInterval' = s.simInterval
  /\ reconnectTimer' = s.reconnectTimer
  /\ reconnectActive' = s.reconnectActive
  /\ simBase' = s.simBase
  /\ tr' = s.tr
  /\ pollQuery' = s.pollQuery
  /\ lastUpdate' = s.lastUpdate
  /\ bufSrc' = s.bufSrc
  /\ spikeAt' = s.spikeAt
  /\ wsClients' = s.wsClients
  /\ wsState' = s.wsState
  /\ inbox' = s.inbox
  /\ pubLog' = s.pubLog
  /\ UNCHANGED <<printVars, billVars>>

\* a print request not yet received
NoResult == [status |-> "pending", method |-> "none", error |-> "none"]
NoRequest ==
  [mode |-> "none", copies |-> 0, pc |-> "idle", i |-> 0, sock |-> "none",
   closing |-> 0, primary |-> "none", fallback |-> "none",
   primaryCalls |-> 0, rawTextCalls |-> 0, pdfSends |-> 0, rawSends |-> 0,
   delivered |-> 0, failed |-> 0, afterFail |-> 0, result |-> NoResult,
   bill |-> NoBill, tmp |-> {}, render |-> "none", queue |-> "none",
   renderCalls |-> 0, queueCalls |-> 0, fallbacks |-> 0, okSends |-> 0,
   stamp |-> 0, rawStamp |-> 0, docs |-> <<>>, printedAt |-> "unchanged"]
\* a testIPPrinter call not yet made
NoProbe ==
  [st |-> "idle", outcome |-> "none", error |-> "none", connected |-> FALSE,
   written |-> 0]
\* a document not yet created, and the answer before any request
\* NoValue stands for the null of grossWeight.value and tareWeight.value,
\* NoNet for the null of netWeight
NoValue == 0 - MaxWeight
NoNet == 0 - MaxWeight
NoDoc ==
  [status |-> "none", gross |-> NoValue, tare |-> NoValue, net |-> NoNet]
NoResp ==
  [op |-> "none", id |-> "none", code |-> 0, before |-> NoDoc,
   ownNet |-> FALSE]

Init ==
  /\ port = 0
  /\ isConnected = FALSE
  /\ isSimulation = FALSE
  /\ portPath = Null
  /\ baudRate = DefaultBaud
  /\ weightBuffer = <<>>
  /\ currentWeight = 0
  /\ stableWeight = 0
  /\ simInterval = FALSE
  /\ reconnectTimer = FALSE
  /\ reconnectActive = FALSE
  /\ simBase = SimBaseline
  /\ tr = [t \in Slots |-> NoTransport]
  /\ pollQuery = Null
  /\ lastUpdate = NoUpdate
  /\ bufSrc = <<>>
  /\ spikeAt = 0
  /\ lastOp = "none"
  /\ wsClients = {}
  /\ wsState = [c \in Clients |-> "none"]
  /\ inbox = [c \in Clients |-> <<>>]
  /\ pubLog = <<>>
  /\ pr = [r \in Reqs |-> NoRequest]
  /\ now = 0
  /\ probe = [p \in ProbeIds |-> NoProbe]
  /\ bills = [b \in BillIds |-> NoDoc]
  /\ billResp = NoResp

\* ------------------------------------------------------------ helpers

Abs(x) == IF x < 0 THEN -x ELSE x
Max(a, b) == IF a >= b THEN a ELSE b

RECURSIVE Sum(_)
Sum(q) == IF q = <<>> THEN 0 ELSE Head(q) + Sum(Tail(q))

\* variant: Math.floor in place of Math.round
RoundAvgTrunc(sum, n) == sum \div n

\* Math.round(sum / n): the nearest integer, a half rounded up
RoundAvg(sum, n) == (2 * sum + n) \div (2 * n)

\* variant: Array.prototype.some in place of every
EveryInBandSome(buf) ==
  \E i \in DOMAIN buf : Abs(Len(buf) * buf[i] - Sum(buf)) < StableBand * Len(buf)

\* this.weightBuffer.every(w => Math.abs(w - avg) < 5), avg = sum / length
EveryInBand(buf) ==
  \A i \in DOMAIN buf : Abs(Len(buf) * buf[i] - Sum(buf)) < StableBand * Len(buf)

\* weightBuffer.push(w); if (length > 5) shift()
Push(buf, x) ==
  IF Len(buf) + 1 > BufferCap THEN Tail(Append(buf, x)) ELSE Append(buf, x)

\* ------------------------------------------------------------ methods

\* The JSON messages, as one record shape: a status message leaves the weight
\* fields at their defaults and a weight message the connected field.  synth
\* marks the message addWSClient builds and id is the position of a weight
\* event in pubLog (0 while nothing is logged); neither is on the wire.
WeightMsg(w, st, sw, sim, synth, id) ==
  [type |-> "weight", weight |-> w, stable |-> st, stableWeight |-> sw,
   simulation |-> sim, connected |-> FALSE, synth |-> synth, id |-> id]
StatusMsg(conn, sim) ==
  [type |-> "status", weight |-> 0, stable |-> FALSE, stableWeight |-> 0,
   simulation |-> sim, connected |-> conn, synth |-> FALSE, id |-> 0]

\* the id the next weight event gets, and the log with that event
NextId(s) == IF s.wsClients = {} THEN 0 ELSE Len(s.pubLog) + 1
Logged(s, msg) == IF s.wsClients = {} THEN s.pubLog ELSE Append(s.pubLog, msg)

\* variant: the loop over the subscribers ends at the first one that is not open
SendToAllUntilClosed(s, msg) ==
  [s EXCEPT !.inbox = [c \in Clients |->
     IF /\ c \in s.wsClients
        /\ \A d \in s.wsClients : d <= c => s.wsState[d] = "open"
       THEN Append(s.inbox[c], msg)
       ELSE s.inbox[c]]]

\* wsClients.forEach(c => { if (c.readyState === 1) c.send(msg); })
SendToAll(s, msg) ==
  [s EXCEPT !.inbox = [c \in Clients |->
     IF c \in s.wsClients /\ s.wsState[c] = "open"
       THEN Append(s.inbox[c], msg)
       ELSE s.inbox[c]]]

\* variant: the message is put in front of what the socket already carries
BroadcastWeightFront(s, w, st, sw, sim) ==
  LET msg == WeightMsg(w, st, sw, sim, FALSE, NextId(s))
  IN [s EXCEPT !.inbox = [c \in Clients |->
                  IF c \in s.wsClients /\ s.wsState[c] = "open"
                    THEN <<msg>> \o s.inbox[c]
                    ELSE s.inbox[c]],
               !.pubLog = Logged(s, msg)]

\* broadcastWeight(data)
BroadcastWeight(s, w, st, sw, sim) ==
  LET msg == WeightMsg(w, st, sw, sim, FALSE, NextId(s))
  IN [SendToAll(s, msg) EXCEPT !.pubLog = Logged(s, msg)]

\* broadcastStatus()
BroadcastStatus(s) ==
  SendToAll(s, StatusMsg(s.isConnected, s.isSimulation))

\* variant: the socket is registered and nothing is sent to it
AddWSClientSilent(s, c) ==
  [s EXCEPT !.wsClients = @ \cup {c}, !.wsState[c] = "open"]

\* addWSClient(ws): ws is the socket of a connection just accepted
AddWSClient(s, c) ==
  LET reg == [s EXCEPT !.wsClients = @ \cup {c}, !.wsState[c] = "open"]
      msg == WeightMsg(s.currentWeight, FALSE, s.stableWeight,
                       s.isSimulation, TRUE, NextId(reg))
  IN [reg EXCEPT !.inbox[c] = Append(@, msg), !.pubLog = Logged(reg, msg)]

\* ws.on('close', () => this.wsClients.delete(ws))
WsOnClose(s, c) ==
  [s EXCEPT !.wsClients = @ \ {c}, !.wsState[c] = "gone"]

\* variant: a reading that is not stable clears the stable weight
UpdateWeightResets(s, w, src) ==
  LET buf      == Push(s.weightBuffer, w)
      isStable == EveryInBand(buf)
      sw       == IF isStable /\ Len(buf) = BufferCap
                    THEN RoundAvg(Sum(buf), Len(buf))
                    ELSE 0
  IN BroadcastWeight(
       [s EXCEPT !.currentWeight = w,
                 !.weightBuffer  = buf,
                 !.stableWeight  = sw,
                 !.lastUpdate    = [weight |-> w, stable |-> isStable,
                                    stableWeight |-> sw,
                                    simulation |-> s.isSimulation,
                                    sent |-> TRUE],
                 !.bufSrc        = Push(s.bufSrc, src),
                 !.spikeAt       = 0],
       w, isStable, sw, s.isSimulation)

\* updateWeight(weight); src names the caller's feed (history only)
UpdateWeight(s, w, src) ==
  LET buf      == Push(s.weightBuffer, w)
      isStable == EveryInBand(buf)
      sw       == IF isStable /\ Len(buf) = BufferCap
                    THEN RoundAvg(Sum(buf), Len(buf))
                    ELSE s.stableWeight
      spike    == /\ Len(s.weightBuffer) = BufferCap
                  /\ s.lastUpdate.stable
                  /\ w = s.stableWeight + SpikeHeight
      shifted  == IF Len(s.weightBuffer) = BufferCap
                    THEN Max(0, s.spikeAt - 1) ELSE s.spikeAt
  IN BroadcastWeight(
       [s EXCEPT !.currentWeight = w,
                 !.weightBuffer  = buf,
                 !.stableWeight  = sw,
                 !.lastUpdate    = [weight |-> w, stable |-> isStable,
                                    stableWeight |-> sw,
                                    simulation |-> s.isSimulation,
                                    sent |-> TRUE],
                 !.bufSrc        = Push(s.bufSrc, src),
                 !.spikeAt       = IF spike THEN Len(buf) ELSE shifted],
       w, isStable, sw, s.isSimulation)

\* variant: a line without a number is taken as a reading of 0
ParseWeightZero(s, line) ==
  IF ~line.match THEN UpdateWeight(s, 0, "real")
  ELSE IF line.num >= 0 /\ line.num < MaxWeight
         THEN UpdateWeight(s, line.num, "real")
         ELSE s

\* parseWeight(data): match[1] is the digits without the sign
ParseWeight(s, line) ==
  IF ~line.match THEN s
  ELSE IF line.num >= 0 /\ line.num < MaxWeight
         THEN UpdateWeight(s, line.num, "real")
         ELSE s

StopSimulation(s) ==
  [s EXCEPT !.simInterval = FALSE, !.simBase = SimBaseline]

StartSimulationIfNeeded(s) ==
  IF s.simInterval THEN s
  ELSE [s EXCEPT !.simInterval = TRUE, !.simBase = SimBaseline]

StopReconnectLoop(s) == [s EXCEPT !.reconnectTimer = FALSE]

StartReconnectLoop(s) == [s EXCEPT !.reconnectTimer = TRUE]

\* variant: the fallback starts the simulation but not the reconnect poll
FallBackNoPoll(s) ==
  StartSimulationIfNeeded(
    [s EXCEPT !.isConnected = FALSE, !.isSimulation = TRUE])

\* the fallback shared by the open-error callback and the catch block
FallBack(s) ==
  StartReconnectLoop(StartSimulationIfNeeded(
    [s EXCEPT !.isConnected = FALSE, !.isSimulation = TRUE]))

FreeSlot(s) == CHOOSE t \in Slots :
  /\ s.tr[t].st = "none"
  /\ \A u \in Slots : s.tr[u].st = "none" => t <= u

\* variant: no "if (this.reconnectActive) return"
TryConnectUnguarded(s) ==
  IF \A t \in Slots : s.tr[t].st # "none" THEN s
  ELSE IF s.portPath = BadPath
    THEN FallBack([s EXCEPT !.reconnectActive = FALSE])
    ELSE [s EXCEPT !.reconnectActive = TRUE,
                   !.tr[FreeSlot(s)] = [path |-> s.portPath,
                                        baud |-> s.baudRate,
                                        st   |-> "opening"]]

\* _tryConnect(): the synchronous part, up to sp.open(callback)
TryConnect(s) ==
  IF s.reconnectActive THEN s
  ELSE IF s.portPath = BadPath
    THEN FallBack([s EXCEPT !.reconnectActive = FALSE])
    ELSE [s EXCEPT !.reconnectActive = TRUE,
                   !.tr[FreeSlot(s)] = [path |-> s.portPath,
                                        baud |-> s.baudRate,
                                        st   |-> "opening"]]

\* variant: the reconnect poll is not started
OnPortLostNoPoll(s) ==
  StartSimulationIfNeeded(BroadcastStatus(
    [s EXCEPT !.isConnected = FALSE, !.isSimulation = TRUE, !.port = 0]))

\* _onPortLost()
OnPortLost(s) ==
  StartReconnectLoop(StartSimulationIfNeeded(BroadcastStatus(
    [s EXCEPT !.isConnected = FALSE, !.isSimulation = TRUE, !.port = 0])))

\* initialize(portPath, baudRate)
InitializeSvc(s, p, b) ==
  TryConnect([s EXCEPT !.portPath = p, !.baudRate = b])

\* this.port.close() of reconnect: the transport stops delivering and its
\* 'close' event is emitted later
ClosePort(s) ==
  IF s.port # 0 /\ s.tr[s.port].st = "open"
    THEN [s EXCEPT !.tr[s.port].st = "closing"]
    ELSE s

\* reconnect(portPath, baudRate)
ReconnectSvc(s, p, b) ==
  TryConnect(StopReconnectLoop(StopSimulation(
    [ClosePort([s EXCEPT !.portPath = p, !.baudRate = b]) EXCEPT !.port = 0])))

\* sp.open callback, err set
OpenErrorCb(s, t) ==
  FallBack([s EXCEPT !.reconnectActive = FALSE, !.tr[t] = NoTransport])

\* variant: the open callback leaves the two timers running
OpenSuccessCbKeepsTimers(s, t) ==
  BroadcastStatus(
    [s EXCEPT !.reconnectActive = FALSE,
              !.port = t,
              !.isConnected = TRUE,
              !.isSimulation = FALSE,
              !.tr[t].st = "open"])

\* sp.open callback, no err: the data, error and close handlers are attached
OpenSuccessCb(s, t) ==
  BroadcastStatus(StopReconnectLoop(StopSimulation(
    [s EXCEPT !.reconnectActive = FALSE,
              !.port = t,
              !.isConnected = TRUE,
              !.isSimulation = FALSE,
              !.tr[t].st = "open"])))

\* the simulation interval's callback
SimTickCb(s, noise) ==
  IF s.isConnected THEN StopSimulation(s)
  ELSE LET b == Max(0, s.simBase + noise)
       IN UpdateWeight([s EXCEPT !.simBase = b], b, "sim")

\* ------------------------------------------------------------ actions

started == portPath # Null
CanAllocate == reconnectActive \/ \E t \in Slots : tr[t].st = "none"

\* server.js startup: serialService.initialize(SERIAL_PORT, BAUD_RATE)
Startup ==
  /\ ~started
  /\ \E c \in Configs : Commit(InitializeSvc(Self, c[1], c[2]))
  /\ lastOp' = "startup"

\* POST /api/settings/serial with a port: serial.initialize(port, baud)
PostSerial(p, b) ==
  /\ started
  /\ CanAllocate
  /\ Commit(InitializeSvc(Self, p, b))
  /\ lastOp' = "postSerial"

\* reconnect(path, baud) called on the service
Reconnect(p, b) ==
  /\ started
  /\ CanAllocate
  /\ Commit(ReconnectSvc(Self, p, b))
  /\ lastOp' = "reconnect"

\* The path of a transport is held exclusively while it is open or closing.
PathHeld(p) == \E u \in Slots : tr[u].path = p /\ tr[u].st \in {"open", "closing"}

OpenSuccess(t) ==
  /\ tr[t].st = "opening"
  /\ ~PathHeld(tr[t].path)
  /\ Commit(OpenSuccessCb(Self, t))
  /\ lastOp' = "event"

OpenError(t) ==
  /\ tr[t].st = "opening"
  /\ Commit(OpenErrorCb(Self, t))
  /\ lastOp' = "openError"

\* the open fails because the path is locked by a transport that holds it
OpenErrorHeld(t) ==
  /\ PathHeld(tr[t].path)
  /\ OpenError(t)

\* parser 'data' event of an open transport
Data(t, line) ==
  /\ tr[t].st = "open"
  /\ Commit(ParseWeight(Self, line))
  /\ lastOp' = IF line.match THEN "event" ELSE "noNumber"

\* the same, while the connection specification still takes samples
DataMain(t, line) ==
  /\ Len(weightBuffer) < MaxSamples
  /\ Data(t, line)

\* 'error' event of an open transport; it delivers nothing afterwards
ErrorEvent(t) ==
  /\ tr[t].st = "open"
  /\ Commit(OnPortLost([Self EXCEPT !.tr[t].st = "closing"]))
  /\ lastOp' = "portError"

\* 'close' event: an open transport lost, or a closing one closed
CloseEvent(t) ==
  /\ tr[t].st \in {"open", "closing"}
  /\ Commit(OnPortLost([Self EXCEPT !.tr[t] = NoTransport]))
  /\ lastOp' = "portClose"

\* 'close' event of a transport that was closed or has failed
ClosingDone(t) ==
  /\ tr[t].st = "closing"
  /\ CloseEvent(t)

SimTick(noise) ==
  /\ simInterval
  /\ Commit(SimTickCb(Self, noise))
  /\ lastOp' = "event"

SimTickMain(noise) ==
  /\ isConnected \/ Len(weightBuffer) < MaxSamples
  /\ SimTick(noise)

\* the walk of the simulation, followed until it first leaves the valid range
SimTickWalk(noise) ==
  /\ simBase < MaxWeight
  /\ SimTick(noise)

\* reconnect interval callback up to "await this._isPortAvailable(this.portPath)"
PollTick ==
  /\ reconnectTimer
  /\ pollQuery = Null
  /\ IF isConnected
       THEN Commit(StopReconnectLoop(Self))
       ELSE Commit([Self EXCEPT !.pollQuery = portPath])
  /\ lastOp' = "event"

\* the rest of the callback, once SerialPort.list() has answered
PollResume(available) ==
  /\ pollQuery # Null
  /\ available => pollQuery \in ValidPaths
  /\ CanAllocate
  /\ LET s == [Self EXCEPT !.pollQuery = Null]
     IN Commit(IF available THEN TryConnect(s) ELSE s)
  /\ lastOp' = "event"

\* SerialPort.list() answers with the polled path present
PollAvailable == PollResume(TRUE)

\* a sample line, while the broadcast specification still logs events
DataPub(t, line) ==
  /\ Len(pubLog) < MaxEvents
  /\ Data(t, line)

SimTickPub(noise) ==
  /\ Len(pubLog) < MaxEvents
  /\ SimTick(noise)

\* server.js wss.on('connection'): serialService.addWSClient(ws)
Subscribe(c) ==
  /\ wsState[c] = "none"
  /\ Len(pubLog) < MaxEvents
  /\ Commit(AddWSClient(Self, c))
  /\ lastOp' = "event"

\* the channel of a socket closes or fails: readyState leaves OPEN (1) and the
\* socket's 'close' event is emitted later
WsFail(c) ==
  /\ wsState[c] = "open"
  /\ Commit([Self EXCEPT !.wsState[c] = "closing"])
  /\ lastOp' = "event"

\* 'close' event of a socket
WsCloseEvent(c) ==
  /\ wsState[c] = "closing"
  /\ Commit(WsOnClose(Self, c))
  /\ lastOp' = "event"

\* ------------------------------------------------------------ printer service

\* the JSON body POST /print/:id answers with: the value printBill returns
\* spread over {success: true}, or {success: false, error} when it throws
Result(status, method, error) ==
  [status |-> status, method |-> method, error |-> error]

\* the temporary file names: `bill_${bill.billNo}_${Date.now()}.html`, the
\* same with .pdf, and `raw_${Date.now()}.prn`, which carries no bill number
HtmlFile(q) == [ext |-> "html", billNo |-> q.bill.billNo, t |-> q.stamp]
PdfFile(q) == [ext |-> "pdf", billNo |-> q.bill.billNo, t |-> q.stamp]
PrnFile(q) == [ext |-> "prn", billNo |-> 0, t |-> q.rawStamp]

\* fs.writeFileSync(file, ...) or the output file of wkhtmltopdf; tmp holds
\* the files the job wrote and has not unlinked
WriteTemp(q, file) == [q EXCEPT !.tmp = @ \cup {file}]

\* _cleanupTemp(...files): unlink each file that exists
CleanupTemp(q, files) == [q EXCEPT !.tmp = @ \ files]

\* buildBillHTML rendered by wkhtmltopdf: the receipt with its camera images
PdfDocument(bill) ==
  [fmt |-> "pdf", billNo |-> bill.billNo, image |-> bill.camera1Image]

\* variant: a raw document that embeds the camera image
BuildRawPCLWithImage(bill) ==
  [fmt |-> "raw", billNo |-> bill.billNo, image |-> bill.camera1Image]

\* _buildRawPCL(bill): control codes around the text fields of the bill
BuildRawPCL(bill) ==
  [fmt |-> "raw", billNo |-> bill.billNo, image |-> NoImage]

\* _sendRawToIPPrinter up to client.connect; fmt names the bytes sent and
\* afterFail counts the sockets opened after a send of the request failed
OpenSocket(q, fmt) ==
  [q EXCEPT !.sock = "connecting",
            !.pdfSends = IF fmt = "pdf" THEN @ + 1 ELSE @,
            !.rawSends = IF fmt = "raw" THEN @ + 1 ELSE @,
            !.afterFail = IF q.failed > 0 THEN @ + 1 ELSE @]

\* connect callback and write callback of the socket: client.write(data,
\* () => client.end()); the data are the PDF file in the try block and
\* rawData in the catch block
Written(q) ==
  [q EXCEPT !.sock = "ended", !.delivered = @ + 1,
            !.docs = Append(@, IF q.pc = "pdfLoop"
                                 THEN PdfDocument(q.bill)
                                 ELSE BuildRawPCL(q.bill))]

\* printViaIP: the loop of the catch block, from its test "i < copies"
RawLoop(q) ==
  IF q.i < q.copies
    THEN OpenSocket([q EXCEPT !.pc = "rawLoop"], "raw")
    ELSE [q EXCEPT !.pc = "done",
                   !.result = Result("success", "ip_raw", "none")]

\* printViaIP: the loop of the try block, from its test "i < copies", to
\* the cleanup and the return that follow it
PdfLoop(q) ==
  IF q.i < q.copies
    THEN OpenSocket([q EXCEPT !.pc = "pdfLoop"], "pdf")
    ELSE [CleanupTemp(q, {HtmlFile(q), PdfFile(q)})
            EXCEPT !.pc = "done",
                   !.result = Result("success", "ip_pdf", "none")]

\* variant: the catch block runs the renderer a second time
CatchPdfErrRetry(q) ==
  IF q.renderCalls < 2
    THEN [q EXCEPT !.pc = "render", !.renderCalls = @ + 1,
                   !.fallbacks = @ + 1]
    ELSE RawLoop([CleanupTemp(q, {HtmlFile(q), PdfFile(q)})
                    EXCEPT !.i = 0, !.fallbacks = @ + 1])

\* printViaIP: catch (pdfErr)
CatchPdfErr(q) ==
  RawLoop([CleanupTemp(q, {HtmlFile(q), PdfFile(q)})
             EXCEPT !.i = 0, !.fallbacks = @ + 1])

\* printViaIP up to "await this._execAsync(wkhtmltopdf ...)"
PrintViaIP(q, t) ==
  LET n == [q EXCEPT !.stamp = t, !.pc = "render", !.renderCalls = @ + 1]
  IN WriteTemp(n, HtmlFile(n))

\* printViaIP once wkhtmltopdf has exited
RenderSettled(q, ok) ==
  IF ok
    THEN PdfLoop(WriteTemp([q EXCEPT !.i = 0, !.render = "ok"], PdfFile(q)))
    ELSE CatchPdfErr([q EXCEPT !.render = "failed"])

\* the awaited send resolved: client.on('close', () => resolve(...))
SendResolved(q) ==
  LET n == [q EXCEPT !.i = @ + 1, !.sock = "none", !.okSends = @ + 1]
  IN IF q.pc = "pdfLoop" THEN PdfLoop(n) ELSE RawLoop(n)

\* variant: a rejected send of the catch block is taken for a success
SendRejectedSwallowed(q, err) ==
  LET n == [q EXCEPT !.sock = "none", !.closing = @ + 1, !.failed = @ + 1]
  IN IF q.pc = "pdfLoop"
       THEN CatchPdfErr(n)
       ELSE [n EXCEPT !.pc = "done",
                      !.result = Result("success", "ip_raw", "none")]

\* the awaited send rejected on 'error' or 'timeout'; the socket emits its
\* 'close' later.  A rejection in the try block enters the catch block, one
\* in the catch block leaves printBill as an exception
SendRejected(q, err) ==
  LET n == [q EXCEPT !.sock = "none", !.closing = @ + 1, !.failed = @ + 1]
  IN IF q.pc = "pdfLoop"
       THEN CatchPdfErr(n)
       ELSE [n EXCEPT !.pc = "done",
                      !.result = Result("failure", "none", err)]

\* variant: the 'close' that follows a rejection settles the send again
LateCloseResolves(q) == [q EXCEPT !.closing = @ - 1, !.okSends = @ + 1]

\* 'close' of a socket whose promise is already rejected: resolve() on a
\* settled promise has no effect
LateClose(q) == [q EXCEPT !.closing = @ - 1]

\* _printRawText up to exec(cmd, callback)
PrintRawText(q, t) ==
  LET n == [q EXCEPT !.rawStamp = t, !.pc = "rawText",
                     !.rawTextCalls = @ + 1]
  IN WriteTemp(n, PrnFile(n))

\* exec callback of _printRawText
RawTextSettled(q, ok) ==
  [CleanupTemp(q, {PrnFile(q)})
     EXCEPT !.pc = "done",
            !.fallback = IF ok THEN "ok" ELSE "failed",
            !.result = IF ok THEN Result("success", "raw_text", "none")
                             ELSE Result("failure", "raw_text", "exec")]

\* printViaLocal up to "await this._execAsync(lp ...)"
PrintViaLocal(q, t) ==
  LET n == [q EXCEPT !.stamp = t, !.pc = "primary", !.primaryCalls = @ + 1]
  IN WriteTemp(n, HtmlFile(n))

\* variant: a failed queue command is reported without the raw text fallback
PrimarySettledNoFallback(q, ok, t) ==
  IF ok
    THEN [CleanupTemp(q, {HtmlFile(q)})
            EXCEPT !.pc = "done", !.primary = "ok",
                   !.result = Result("success", "local", "none")]
    ELSE [CleanupTemp(q, {HtmlFile(q)})
            EXCEPT !.pc = "done", !.primary = "failed",
                   !.result = Result("failure", "local", "exec")]

\* printViaLocal once the queue command has exited: return or catch (err)
PrimarySettled(q, ok, t) ==
  IF ok
    THEN [CleanupTemp(q, {HtmlFile(q)})
            EXCEPT !.pc = "done", !.primary = "ok",
                   !.result = Result("success", "local", "none")]
    ELSE PrintRawText([CleanupTemp(q, {HtmlFile(q)})
                         EXCEPT !.primary = "failed"], t)

\* variant: the catch block of printViaPDF sends the raw document to the
\* IP printer
PdfCatchRaw(q, err) ==
  RawLoop([CleanupTemp(q, {HtmlFile(q)}) EXCEPT !.i = 0])

\* printViaPDF: catch (err): _cleanupTemp(htmlFile), throw
PdfCatch(q, err) ==
  [CleanupTemp(q, {HtmlFile(q)})
     EXCEPT !.pc = "done", !.result = Result("failure", "none", err)]

\* printViaPDF up to "await this._execAsync(wkhtmltopdf ...)"
PrintViaPDF(q, t) ==
  LET n == [q EXCEPT !.stamp = t, !.pc = "pdfRender", !.renderCalls = @ + 1]
  IN WriteTemp(n, HtmlFile(n))

\* printViaPDF once wkhtmltopdf has exited: the queue command is started
PdfRenderSettled(q, ok) ==
  IF ok
    THEN WriteTemp([q EXCEPT !.render = "ok", !.pc = "pdfQueue",
                             !.queueCalls = @ + 1], PdfFile(q))
    ELSE PdfCatch([q EXCEPT !.render = "failed"], "render")

\* printViaPDF once lpr / AcroRd32 has exited
PdfQueueSettled(q, ok) ==
  IF ok
    THEN [CleanupTemp(q, {HtmlFile(q), PdfFile(q)})
            EXCEPT !.queue = "ok", !.pc = "done",
                   !.result = Result("success", "pdf", "none")]
    ELSE PdfCatch([q EXCEPT !.queue = "failed"], "queue")

\* printBill(bill, companySettings, options): switch (type)
PrintBill(q, bill, mode, n, t) ==
  LET req == [q EXCEPT !.bill = bill, !.mode = mode, !.copies = n]
  IN CASE mode = "ip" -> PrintViaIP(req, t)
       [] mode = "html" ->
            [req EXCEPT !.pc = "done",
                        !.result = Result("success", "html", "none")]
       [] mode = "pdf" -> PrintViaPDF(req, t)
       [] OTHER -> PrintViaLocal(req, t)

\* POST /print/:id after "await printerService.printBill(...)": when the
\* call returned a value, bill.printedAt = new Date() and bill.save(); when
\* it threw, the catch block answers 500.  The thrown failures are those
\* without a method
PrintRoute(q) ==
  IF q.pc = "done"
       /\ ~(q.result.status = "failure" /\ q.result.method = "none")
    THEN [q EXCEPT !.printedAt = "written"]
    ELSE q

\* POST /api/printer/print/:id
Submit(r, bill, mode, n) ==
  /\ pr[r].pc = "idle"
  /\ pr' = [pr EXCEPT ![r] =
             PrintRoute(PrintBill(pr[r], bill, mode, n, now))]
  /\ UNCHANGED <<serialVars, now, probe, billVars>>

\* a millisecond passes
ClockTick ==
  /\ now < MaxClock
  /\ now' = now + 1
  /\ UNCHANGED <<serialVars, pr, probe, billVars>>

\* wkhtmltopdf exits
RenderDone(r, ok) ==
  /\ pr[r].pc = "render"
  /\ pr' = [pr EXCEPT ![r] = PrintRoute(RenderSettled(pr[r], ok))]
  /\ UNCHANGED <<serialVars, now, probe, billVars>>

\* connect callback and write callback of the socket: the bytes are written
\* and client.end() is called
SockWritten(r) ==
  /\ pr[r].sock = "connecting"
  /\ pr' = [pr EXCEPT ![r] = Written(pr[r])]
  /\ UNCHANGED <<serialVars, now, probe, billVars>>

\* 'close' event of the socket the request awaits
SockClose(r) ==
  /\ pr[r].sock = "ended"
  /\ pr' = [pr EXCEPT ![r] = PrintRoute(SendResolved(pr[r]))]
  /\ UNCHANGED <<serialVars, now, probe, billVars>>

\* 'error' event of the socket the request awaits
SockError(r) ==
  /\ pr[r].sock \in {"connecting", "ended"}
  /\ pr' = [pr EXCEPT ![r] = PrintRoute(SendRejected(pr[r], "error"))]
  /\ UNCHANGED <<serialVars, now, probe, billVars>>

\* 'timeout' event of the socket the request awaits: client.destroy(), reject
SockTimeout(r) ==
  /\ pr[r].sock \in {"connecting", "ended"}
  /\ pr' = [pr EXCEPT ![r] = PrintRoute(SendRejected(pr[r], "timeout"))]
  /\ UNCHANGED <<serialVars, now, probe, billVars>>

\* 'close' event of a socket whose send was rejected
StaleClose(r) ==
  /\ pr[r].closing > 0
  /\ pr' = [pr EXCEPT ![r] = LateClose(pr[r])]
  /\ UNCHANGED <<serialVars, now, probe, billVars>>

\* the queue command of printViaLocal exits
PrimaryDone(r, ok) ==
  /\ pr[r].pc = "primary"
  /\ pr' = [pr EXCEPT ![r] = PrintRoute(PrimarySettled(pr[r], ok, now))]
  /\ UNCHANGED <<serialVars, now, probe, billVars>>

\* the command of _printRawText exits
RawTextDone(r, ok) ==
  /\ pr[r].pc = "rawText"
  /\ pr' = [pr EXCEPT ![r] = PrintRoute(RawTextSettled(pr[r], ok))]
  /\ UNCHANGED <<serialVars, now, probe, billVars>>

\* wkhtmltopdf of printViaPDF exits
PdfRenderDone(r, ok) ==
  /\ pr[r].pc = "pdfRender"
  /\ pr' = [pr EXCEPT ![r] = PrintRoute(PdfRenderSettled(pr[r], ok))]
  /\ UNCHANGED <<serialVars, now, probe, billVars>>

\* the queue command of printViaPDF exits
PdfQueueDone(r, ok) ==
  /\ pr[r].pc = "pdfQueue"
  /\ pr' = [pr EXCEPT ![r] = PrintRoute(PdfQueueSettled(pr[r], ok))]
  /\ UNCHANGED <<serialVars, now, probe, billVars>>

\* ------------------------------------------------------------ reachability probe

\* testIPPrinter(host, port) up to client.connect(port, host, ...): connect
\* validates the port before any event can fire, and an exception thrown in
\* the promise executor rejects the promise.  portOk tells whether
\* parseInt(port) is an integer of 0 .. 65535
TestIPPrinter(q, portOk) ==
  IF portOk
    THEN [q EXCEPT !.st = "connecting"]
    ELSE [q EXCEPT !.st = "done", !.outcome = "raised",
                   !.error = "ERR_SOCKET_BAD_PORT"]

\* connect callback: client.destroy(); resolve({reachable: true, ...})
ProbeConnected(q) ==
  [q EXCEPT !.st = "done", !.connected = TRUE, !.outcome = "reachable"]

\* 'error' and 'timeout' handlers: resolve({reachable: false, ..., error})
ProbeFailed(q, err) ==
  [q EXCEPT !.st = "done", !.outcome = "unreachable", !.error = err]

\* POST /api/printer/test-ip
TestIP(p, portOk) ==
  /\ probe[p].st = "idle"
  /\ probe' = [probe EXCEPT ![p] = TestIPPrinter(probe[p], portOk)]
  /\ UNCHANGED <<serialVars, pr, now, billVars>>

\* the probe's socket connects
ProbeConnect(p) ==
  /\ probe[p].st = "connecting"
  /\ probe' = [probe EXCEPT ![p] = ProbeConnected(probe[p])]
  /\ UNCHANGED <<serialVars, pr, now, billVars>>

\* the probe's socket emits 'error'
ProbeError(p) ==
  /\ probe[p].st = "connecting"
  /\ probe' = [probe EXCEPT ![p] = ProbeFailed(probe[p], "err.message")]
  /\ UNCHANGED <<serialVars, pr, now, billVars>>

\* the probe's socket emits 'timeout' after 4000 ms
ProbeTimeout(p) ==
  /\ probe[p].st = "connecting"
  /\ probe' = [probe EXCEPT ![p] = ProbeFailed(probe[p], "Timeout")]
  /\ UNCHANGED <<serialVars, pr, now, billVars>>

\* ------------------------------------------------------------ bills routes

\* variant: a save hook that leaves netWeight as it finds it
PreSaveKeepsNet(doc) == doc

\* WeighBillSchema.pre('save'): net weight from the two values when both
\* are present
PreSave(doc) ==
  IF doc.gross # NoValue /\ doc.tare # NoValue
    THEN [doc EXCEPT !.net = doc.gross - doc.tare]
    ELSE doc

\* the weight a weighing route uses: req.body.weight, else the stable weight
\* of the serial service when positive, else its current weight, else 0
ChosenWeight(body) ==
  IF body # 0 THEN body
  ELSE IF stableWeight > 0 THEN stableWeight
  ELSE currentWeight

\* the answer of a route: its HTTP status and the document as it was found
Answer(op, b, code) ==
  [op |-> op, id |-> b, code |-> code, before |-> bills[b],
   ownNet |-> FALSE]

\* POST /api/bills
PostBill(b) ==
  /\ bills[b].status = "none"
  /\ bills' = [bills EXCEPT ![b] = PreSave([NoDoc EXCEPT !.status = "pending"])]
  /\ billResp' = Answer("create", b, 201)
  /\ UNCHANGED <<serialVars, printVars>>

\* PATCH /api/bills/:id/gross-weight
PatchGross(b, body) ==
  /\ LET w == ChosenWeight(body)
     IN IF bills[b].status = "none"
          THEN bills' = bills /\ billResp' = Answer("gross", b, 404)
        ELSE IF w <= 0
          THEN bills' = bills /\ billResp' = Answer("gross", b, 400)
        ELSE /\ bills' = [bills EXCEPT ![b] =
                            PreSave([@ EXCEPT !.gross = w,
                                              !.status = "gross_weighed"])]
             /\ billResp' = Answer("gross", b, 200)
  /\ UNCHANGED <<serialVars, printVars>>

\* PATCH /api/bills/:id/tare-weight
PatchTare(b, body) ==
  /\ LET w == ChosenWeight(body)
     IN IF bills[b].status = "none"
          THEN bills' = bills /\ billResp' = Answer("tare", b, 404)
        ELSE IF bills[b].gross \in {NoValue, 0}
          THEN bills' = bills /\ billResp' = Answer("tare", b, 400)
        ELSE IF w <= 0
          THEN bills' = bills /\ billResp' = Answer("tare", b, 400)
        ELSE /\ bills' = [bills EXCEPT ![b] =
                            PreSave([@ EXCEPT !.tare = w,
                                              !.net = bills[b].gross - w,
                                              !.status = "completed"])]
             /\ billResp' = Answer("tare", b, 200)
  /\ UNCHANGED <<serialVars, printVars>>

\* the allowed.forEach of PATCH /:id for the four fields, and the
\* recalculation of the net weight that follows it
ApplyPatch(doc, body) ==
  LET d == [doc EXCEPT
              !.status = IF body.status # NoStatus THEN body.status ELSE @,
              !.gross = IF body.gross # Absent THEN body.gross ELSE @,
              !.tare = IF body.tare # Absent THEN body.tare ELSE @,
              !.net = IF body.net # Absent THEN body.net ELSE @]
  IN IF d.gross # NoValue /\ d.tare # NoValue
       THEN [d EXCEPT !.net = d.gross - d.tare]
       ELSE d

\* PATCH /api/bills/:id
PatchBill(b, body) ==
  /\ IF bills[b].status = "none"
       THEN bills' = bills /\ billResp' = Answer("patch", b, 404)
       ELSE /\ bills' = [bills EXCEPT ![b] = PreSave(ApplyPatch(@, body))]
            /\ billResp' = [Answer("patch", b, 200)
                              EXCEPT !.ownNet = body.net # Absent]
  /\ UNCHANGED <<serialVars, printVars>>

\* ------------------------------------------------------------ specifications

Next ==
  \/ Startup
  \/ \E c \in Configs : PostSerial(c[1], c[2])
  \/ \E c \in Configs : Reconnect(c[1], c[2])
  \/ \E t \in Slots : OpenSuccess(t)
  \/ \E t \in Slots : OpenError(t)
  \/ \E t \in Slots, line \in LinesMain : DataMain(t, line)
  \/ \E t \in Slots : ErrorEvent(t)
  \/ \E t \in Slots : CloseEvent(t)
  \/ \E n \in NoiseMain : SimTickMain(n)
  \/ PollTick
  \/ \E a \in BOOLEAN : PollResume(a)

\* the connection manager under every interleaving of its events
Spec == Init /\ [][Next]_vars

\* the connection manager with an indicator that is plugged in on every
\* configured path: the poll finds the path, and an open fails only on a
\* path that is held
NextLive ==
  \/ Startup
  \/ \E c \in Configs : PostSerial(c[1], c[2])
  \/ \E c \in Configs : Reconnect(c[1], c[2])
  \/ \E t \in Slots : OpenSuccess(t)
  \/ \E t \in Slots : OpenErrorHeld(t)
  \/ \E t \in Slots : ErrorEvent(t)
  \/ \E t \in Slots : CloseEvent(t)
  \/ PollTick
  \/ PollAvailable

\* the open callback of every attempt is called, a transport that is being
\* closed emits 'close', the interval fires and SerialPort.list() answers
FairLive ==
  /\ \A t \in Slots : WF_vars(OpenSuccess(t))
  /\ \A t \in Slots : WF_vars(OpenErrorHeld(t))
  /\ \A t \in Slots : WF_vars(ClosingDone(t))
  /\ WF_vars(PollTick)
  /\ WF_vars(PollAvailable)

SpecLive == Init /\ [][NextLive]_vars /\ FairLive

\* the stability filter fed by a connected indicator
NextFilter ==
  \/ Startup
  \/ \E t \in Slots : OpenSuccess(t)
  \/ \E t \in Slots, line \in LinesFilter : Data(t, line)

SpecFilter == Init /\ [][NextFilter]_vars

\* the simulation generator running with no indicator attached
NextSim ==
  \/ Startup
  \/ \E t \in Slots : OpenError(t)
  \/ \E n \in NoiseWalk : SimTickWalk(n)

SpecSim == Init /\ [][NextSim]_vars

\* the line parser fed by a connected indicator
NextParse ==
  \/ Startup
  \/ \E t \in Slots : OpenSuccess(t)
  \/ \E t \in Slots, line \in LinesParse : Data(t, line)

SpecParse == Init /\ [][NextParse]_vars

\* the broadcast to WebSocket subscribers, under either feed
NextBroadcast ==
  \/ Startup
  \/ \E t \in Slots : OpenSuccess(t)
  \/ \E t \in Slots : OpenError(t)
  \/ \E t \in Slots, line \in LinesMain : DataPub(t, line)
  \/ \E n \in NoiseMain : SimTickPub(n)
  \/ \E c \in Clients : Subscribe(c)
  \/ \E c \in Clients : WsFail(c)
  \/ \E c \in Clients : WsCloseEvent(c)

SpecBroadcast == Init /\ [][NextBroadcast]_vars

\* print requests dispatched to the local queue or to an IP printer
NextPrint ==
  \/ \E r \in Reqs, b \in PrintBills, m \in Modes, n \in CopyCounts :
       Submit(r, b, m, n)
  \/ \E r \in Reqs, ok \in BOOLEAN : RenderDone(r, ok)
  \/ \E r \in Reqs : SockWritten(r)
  \/ \E r \in Reqs : SockClose(r)
  \/ \E r \in Reqs : SockError(r)
  \/ \E r \in Reqs : SockTimeout(r)
  \/ \E r \in Reqs : StaleClose(r)
  \/ \E r \in Reqs, ok \in BOOLEAN : PrimaryDone(r, ok)
  \/ \E r \in Reqs, ok \in BOOLEAN : RawTextDone(r, ok)

SpecPrint == Init /\ [][NextPrint]_vars

\* single-copy print requests of every printer type, as the clock advances
NextJob ==
  \/ \E r \in Reqs, b \in PrintBills, m \in AllModes : Submit(r, b, m, 1)
  \/ ClockTick
  \/ \E r \in Reqs, ok \in BOOLEAN : RenderDone(r, ok)
  \/ \E r \in Reqs : SockWritten(r)
  \/ \E r \in Reqs : SockClose(r)
  \/ \E r \in Reqs : SockError(r)
  \/ \E r \in Reqs : SockTimeout(r)
  \/ \E r \in Reqs : StaleClose(r)
  \/ \E r \in Reqs, ok \in BOOLEAN : PrimaryDone(r, ok)
  \/ \E r \in Reqs, ok \in BOOLEAN : RawTextDone(r, ok)
  \/ \E r \in Reqs, ok \in BOOLEAN : PdfRenderDone(r, ok)
  \/ \E r \in Reqs, ok \in BOOLEAN : PdfQueueDone(r, ok)

SpecJob == Init /\ [][NextJob]_vars

\* reachability probes of IP printers
NextProbe ==
  \/ \E p \in ProbeIds, portOk \in BOOLEAN : TestIP(p, portOk)
  \/ \E p \in ProbeIds : ProbeConnect(p)
  \/ \E p \in ProbeIds : ProbeError(p)
  \/ \E p \in ProbeIds : ProbeTimeout(p)

SpecProbe == Init /\ [][NextProbe]_vars

\* the weighing workflow of the bills routes
NextBills ==
  \/ \E b \in BillIds : PostBill(b)
  \/ \E b \in BillIds, w \in BodyWeights : PatchGross(b, w)
  \/ \E b \in BillIds, w \in BodyWeights : PatchTare(b, w)
  \/ \E b \in BillIds, body \in Patches : PatchBill(b, body)

SpecBills == Init /\ [][NextBills]_vars

\* ------------------------------------------------------------ claims

InRange(w) == w >= 0 /\ w < MaxWeight

\* the band test and the rounded mean, stated on the five samples themselves
WithinBandOfMean(buf) ==
  \A i \in DOMAIN buf : Abs(5 * buf[i] - Sum(buf)) <= 25
StrictlyWithinBandOfMean(buf) ==
  \A i \in DOMAIN buf : Abs(5 * buf[i] - Sum(buf)) < 25
RoundedMean(buf) ==
  CHOOSE r \in (Sum(buf) \div 5) .. (Sum(buf) \div 5 + 1) :
    2 * Sum(buf) - 5 < 10 * r /\ 10 * r <= 2 * Sum(buf) + 5

RealFeedActive == \E t \in Slots : tr[t].st = "open"
SimFeedActive == simInterval /\ ~isConnected

\* C1: a real transport is never open and delivering samples while the
\* simulation generator is running and producing samples.
C1_FeedsExclusive == ~(RealFeedActive /\ SimFeedActive)

\* C2: at most one connect attempt is in flight in every reachable state.
C2_OneAttemptInFlight ==
  Cardinality({t \in Slots : tr[t].st = "opening"}) <= 1
\* a request for another path arrived while an attempt was still in flight
C2_Witness ==
  \E t \in Slots : tr[t].st = "opening" /\ tr[t].path # portPath

AttemptInFlightFor(p, b) ==
  \E t \in Slots : tr[t].st = "opening" /\ tr[t].path = p /\ tr[t].baud = b

\* C3: once reconnect(path, baud) returns, no transport is left open, the
\* simulation timer and the reconnect poll are stopped, and the attempt in
\* flight uses the new (path, baud).
C3_ReconnectForcesNewAttempt ==
  lastOp = "reconnect" =>
    /\ \A t \in Slots : tr[t].st # "open"
    /\ ~simInterval
    /\ ~reconnectTimer
    /\ AttemptInFlightFor(portPath, baudRate)

\* C4: once POST /settings/serial has run, the transport that was open is
\* closed and the attempt in flight uses the newly configured (path, baud).
C4_ReconfigureForcesReconnect ==
  lastOp = "postSerial" =>
    /\ \A t \in Slots : tr[t].st # "open"
    /\ AttemptInFlightFor(portPath, baudRate)

\* C5 as stated: five consecutive samples all within 5, inclusive, of their
\* mean give stable = true and stableWeight = round(mean).
C5_InclusiveBandStable ==
  (lastUpdate.sent /\ Len(weightBuffer) = 5 /\ WithinBandOfMean(weightBuffer))
    => /\ lastUpdate.stable
       /\ lastUpdate.stableWeight = RoundedMean(weightBuffer)
\* C5 amended: five consecutive samples all strictly less than 5 from their
\* mean give stable = true and stableWeight = round(mean).
C5_StrictBandStable ==
  (lastUpdate.sent /\ Len(weightBuffer) = 5
     /\ StrictlyWithinBandOfMean(weightBuffer))
    => /\ lastUpdate.stable
       /\ lastUpdate.stableWeight = RoundedMean(weightBuffer)
\* five in-band samples whose mean is not a whole number
C5_Witness ==
  /\ lastUpdate.sent
  /\ Len(weightBuffer) = 5
  /\ StrictlyWithinBandOfMean(weightBuffer)
  /\ (2 * Sum(weightBuffer)) % 10 > 5

\* C6: an update is reported stable only when the buffer holds 5 samples.
C6_StableOnlyWhenFull ==
  lastUpdate.stable => Len(weightBuffer) = BufferCap

\* C7: stableWeight changes only on an update whose buffer is full and
\* stable; every other step leaves it exactly as it was.
C7_StableWeightFrame ==
  [][stableWeight' # stableWeight =>
       /\ Len(weightBuffer') = 5
       /\ StrictlyWithinBandOfMean(weightBuffer')
       /\ lastUpdate'.stable]_vars
\* an unstable update that kept an earlier stable weight
C7_Witness ==
  /\ lastUpdate.sent
  /\ ~lastUpdate.stable
  /\ stableWeight # 0

\* C8 as stated: while the spike is among the last 5 samples, no update
\* reports stable = true.
C8_UnstableWhileSpikeBuffered ==
  spikeAt > 0 => ~lastUpdate.stable
\* C8 amended: while the spike and a sample of the old plateau are both among
\* the last 5 samples (the spike's update and the next three), no update
\* reports stable = true.
C8_UnstableWhilePlateauBuffered ==
  spikeAt >= 2 => ~lastUpdate.stable
\* the third update after the spike: one plateau sample left
C8_Witness ==
  spikeAt = 2 /\ ~lastUpdate.stable

\* C9: the stability buffer never holds samples of two feed sources at once.
C9_BufferSingleSource ==
  \A i, j \in DOMAIN bufSrc : bufSrc[i] = bufSrc[j]

\* C10: every value recorded in the stability buffer or published as
\* currentWeight lies in [0, 200000).
C10_RecordedInRange ==
  /\ InRange(currentWeight)
  /\ \A i \in DOMAIN weightBuffer : InRange(weightBuffer[i])

\* the number the first run of digits of a line spells, its sign included
LineValue(line) == IF line.sign = "-" THEN 0 - line.num ELSE line.num

\* C11: a line whose first number, sign included, is negative or is 200000
\* or more produces no weight update and no broadcast.
C11_OutOfRangeLineDropped ==
  [][\A t \in Slots, line \in LinesParse :
       (Data(t, line) /\ line.match /\ ~InRange(LineValue(line)))
         => UNCHANGED <<weightBuffer, currentWeight, stableWeight, lastUpdate,
                        inbox, pubLog>>]_vars

\* C12: while a transport that a connect attempt opened is still open (the
\* connection has not been lost), no simulation tick ingests or publishes a
\* sample.
C12_NoSimulatedSampleWhileOpen ==
  [][\A n \in NoiseMain :
       (SimTick(n) /\ RealFeedActive)
         => UNCHANGED <<weightBuffer, currentWeight, stableWeight, lastUpdate,
                        bufSrc, inbox, pubLog>>]_vars

\* C13: an open failure, a runtime transport error and a transport close
\* each leave the manager disconnected with the simulation timer and the
\* reconnect poll running.
C13_FailuresFallBack ==
  lastOp \in {"openError", "portError", "portClose"} =>
    (~isConnected /\ isSimulation /\ simInterval /\ reconnectTimer)
\* the transport of the connection failed at run time, and the manager has
\* fallen back
C13_Witness ==
  /\ lastOp = "portError"
  /\ \E t \in Slots : tr[t].st = "closing" /\ tr[t].path = portPath
  /\ port = 0
  /\ ~isConnected /\ simInterval /\ reconnectTimer

OpenSubscribers == {c \in wsClients : wsState[c] = "open"}
IsWeight(m) == m.type = "weight"
Last(q) == q[Len(q)]

\* C14: a published weight event is appended to the stream of every registered
\* subscriber whose channel is open, whatever the state of the others, and a
\* subscriber whose 'close' event has been handled is no longer registered.
C14_DeliveryIndependent ==
  [][/\ (pubLog' # pubLog /\ ~Last(pubLog').synth)
          => \A c \in OpenSubscribers :
               inbox'[c] = Append(inbox[c], Last(pubLog'))
     /\ \A c \in Clients : wsState'[c] = "gone" => c \notin wsClients']_vars
\* an open subscriber has received an event published while another
\* registered subscriber's channel was closed
C14_Witness ==
  \E c, d \in Clients :
    /\ c \in wsClients /\ wsState[c] = "closing"
    /\ d \in wsClients /\ wsState[d] = "open"
    /\ inbox[d] # <<>>
    /\ IsWeight(Last(inbox[d])) /\ ~Last(inbox[d]).synth
    /\ \A k \in DOMAIN inbox[c] : inbox[c][k].id < Last(inbox[d]).id

\* C15: the step that registers a subscriber sends it one weight message with
\* the current weight, stableWeight and simulation flag; that message stays
\* the first of its stream, and nothing reaches a socket before it registers.
C15_SubscribeDeliversCurrentState ==
  [][\A c \in Clients :
       /\ (c \notin wsClients /\ c \in wsClients')
            => /\ inbox'[c] # <<>>
               /\ IsWeight(inbox'[c][1])
               /\ inbox'[c][1].weight = currentWeight
               /\ inbox'[c][1].stableWeight = stableWeight
               /\ inbox'[c][1].simulation = isSimulation
               /\ Len(inbox'[c]) = 1
       /\ inbox[c] # <<>>
            => (inbox'[c] # <<>> /\ inbox'[c][1] = inbox[c][1])
       /\ wsState'[c] = "none" => inbox'[c] = <<>>]_vars
\* a subscriber that joined late got the weight of that moment first and a
\* published event after it
C15_Witness ==
  \E c \in wsClients :
    /\ Len(inbox[c]) >= 2
    /\ inbox[c][1].synth
    /\ inbox[c][1].weight # 0
    /\ IsWeight(inbox[c][2]) /\ ~inbox[c][2].synth

\* C16: the weight events a subscriber has received are events of the log,
\* in the order in which they were generated.
C16_PerSubscriberOrder ==
  \A c \in Clients :
    LET w == SelectSeq(inbox[c], IsWeight)
    IN /\ \A k \in DOMAIN w :
            w[k].id \in DOMAIN pubLog /\ pubLog[w[k].id] = w[k]
       /\ \A j, k \in DOMAIN w : j < k => w[j].id < w[k].id
\* a subscriber has received two published events, and another one only the
\* later of them
C16_Witness ==
  \E c, d \in Clients :
    /\ Len(SelectSeq(inbox[c], IsWeight)) = 3
    /\ Len(SelectSeq(inbox[d], IsWeight)) = 2
    /\ ~Last(inbox[c]).synth
    /\ Last(inbox[c]) = Last(inbox[d])

\* C17: a local request runs its queue command exactly once; it runs the raw
\* text command exactly once if the queue command failed and never otherwise;
\* it opens no socket; and its result is success "local", success
\* "raw_text" or failure "raw_text" according to the two outcomes.
C17_LocalFallsBackOnce ==
  \A r \in Reqs : pr[r].mode = "local" =>
    /\ pr[r].primaryCalls = 1
    /\ pr[r].rawTextCalls = (IF pr[r].primary = "failed" THEN 1 ELSE 0)
    /\ pr[r].pdfSends + pr[r].rawSends = 0
    /\ (pr[r].pc = "done") = (pr[r].primary = "ok" \/ pr[r].fallback # "none")
    /\ pr[r].pc = "done" =>
         pr[r].result =
           (IF pr[r].primary = "ok" THEN Result("success", "local", "none")
            ELSE IF pr[r].fallback = "ok"
              THEN Result("success", "raw_text", "none")
              ELSE Result("failure", "raw_text", "exec"))
\* one request was saved by the fallback and another failed twice
C17_Witness ==
  \E r, q \in Reqs :
    /\ pr[r].primary = "failed" /\ pr[r].fallback = "ok"
    /\ pr[r].result.status = "success"
    /\ pr[q].primary = "failed" /\ pr[q].fallback = "failed"
    /\ pr[q].result.status = "failure"

\* C18: once a socket send of an ip request has failed, the request opens no
\* further socket, and it ends as a failure that names the method and the
\* error.
C18_TransportFailureAborts ==
  \A r \in Reqs : (pr[r].mode = "ip" /\ pr[r].failed > 0) =>
    /\ pr[r].afterFail = 0
    /\ pr[r].pc = "done" =>
         /\ pr[r].result.status = "failure"
         /\ pr[r].result.method # "none"
         /\ pr[r].result.error # "none"

\* the sockets of a request that have not emitted 'close'
SocketsAlive(r) ==
  (IF pr[r].sock = "none" THEN 0 ELSE 1) + pr[r].closing

\* C19: a request never has two sockets that have not fully closed.
C19_OneSocketPerRequest ==
  \A r \in Reqs : SocketsAlive(r) <= 1

\* C20: an ip request with copies = n that reports success has made exactly n
\* socket sends, all of the same bytes, and no request delivers more than n
\* documents.
C20_ExactlyNSends ==
  \A r \in Reqs : pr[r].mode = "ip" =>
    /\ pr[r].delivered <= pr[r].copies
    /\ (pr[r].pc = "done" /\ pr[r].result.status = "success") =>
         /\ pr[r].pdfSends + pr[r].rawSends = pr[r].copies
         /\ pr[r].pdfSends = 0 \/ pr[r].rawSends = 0

\* the documents a request has written to sockets are all of format fmt
AllDocs(r, fmt) == \A k \in 1 .. Len(pr[r].docs) : pr[r].docs[k].fmt = fmt

\* C21: the method of a successful result names what was delivered: with
\* "ip_pdf" every document written to the printer was the rendered PDF, with
\* "ip_raw" every one was the raw document, and a local request completed by
\* the raw text fallback is not reported with method "local".
C21_MethodNamesDelivery ==
  \A r \in Reqs : (pr[r].pc = "done" /\ pr[r].result.status = "success") =>
    /\ pr[r].result.method = "ip_pdf" => AllDocs(r, "pdf")
    /\ pr[r].result.method = "ip_raw" => AllDocs(r, "raw")
    /\ (pr[r].mode = "local" /\ pr[r].fallback = "ok") =>
         pr[r].result.method # "local"

\* the raw document as a function of the text fields alone
TextDocument(billNo) == [fmt |-> "raw", billNo |-> billNo, image |-> NoImage]

\* C22: an ip request whose render failed and none of whose sends failed
\* writes to the printer only the raw document, which is determined by the
\* text fields of the bill and carries no camera image, and it ends as
\* success "ip_raw" after one such document per copy.
C22_RenderFailureSendsRawText ==
  \A r \in Reqs :
    (pr[r].mode = "ip" /\ pr[r].render = "failed" /\ pr[r].failed = 0) =>
      /\ \A k \in 1 .. Len(pr[r].docs) :
           pr[r].docs[k] = TextDocument(pr[r].bill.billNo)
      /\ pr[r].pc = "done" =>
           /\ pr[r].result = Result("success", "ip_raw", "none")
           /\ Len(pr[r].docs) = pr[r].copies
\* a bill with a camera image was printed twice by the raw fallback
C22_Witness ==
  \E r \in Reqs :
    /\ pr[r].mode = "ip" /\ pr[r].render = "failed" /\ pr[r].failed = 0
    /\ pr[r].bill.camera1Image # NoImage
    /\ pr[r].pc = "done" /\ Len(pr[r].docs) = 2

\* C23: a request runs the PDF renderer at most once and enters the raw
\* fallback at most once, and once it has entered the fallback it is not
\* waiting for the renderer again.
C23_OneRenderOneFallback ==
  \A r \in Reqs :
    /\ pr[r].renderCalls <= 1
    /\ pr[r].fallbacks <= 1
    /\ pr[r].fallbacks > 0 => pr[r].pc # "render"
\* a request rendered its PDF, lost a send, fell back and completed
C23_Witness ==
  \E r \in Reqs :
    /\ pr[r].render = "ok" /\ pr[r].fallbacks = 1 /\ pr[r].renderCalls = 1
    /\ pr[r].pc = "done" /\ pr[r].result.method = "ip_raw"

\* C24: a pdf request whose render or queue command failed is done with a
\* failure that carries the error; it runs each of the two commands at most
\* once, runs no raw text command and opens no socket.
C24_PdfModeFailsWithoutFallback ==
  \A r \in Reqs : pr[r].mode = "pdf" =>
    /\ pr[r].renderCalls <= 1 /\ pr[r].queueCalls <= 1
    /\ pr[r].rawTextCalls = 0 /\ pr[r].fallbacks = 0
    /\ pr[r].pdfSends + pr[r].rawSends = 0
    /\ (pr[r].render = "failed" \/ pr[r].queue = "failed") =>
         /\ pr[r].pc = "done"
         /\ pr[r].result.status = "failure"
         /\ pr[r].result.error # "none"
\* one pdf request failed in the render and another in the queue command
C24_Witness ==
  \E r, q \in Reqs :
    /\ pr[r].mode = "pdf" /\ pr[r].render = "failed" /\ pr[r].pc = "done"
    /\ pr[q].mode = "pdf" /\ pr[q].render = "ok" /\ pr[q].queue = "failed"
    /\ pr[q].pc = "done"

\* C25: a request that is done has unlinked every temporary file it wrote.
C25_TempFilesRemoved ==
  \A r \in Reqs : pr[r].pc = "done" => pr[r].tmp = {}

\* the request has been dispatched and has not been answered
InProgress(r) == pr[r].pc \notin {"idle", "done"}

\* C26: two requests in progress at the same time hold no temporary file of
\* the same name.
C26_TempNamesDistinct ==
  \A r, q \in Reqs :
    (r # q /\ InProgress(r) /\ InProgress(q)) =>
      pr[r].tmp \cap pr[q].tmp = {}

\* the sends a request has started and those that have settled
SendsStarted(r) == pr[r].pdfSends + pr[r].rawSends
SendsSettled(r) == pr[r].okSends + pr[r].failed

\* C27: every send settles at most once, as a success or as an error: the
\* settled sends and the one still awaited add up to the sends started, also
\* after the 'close' of a socket whose send was rejected; and a send succeeds
\* only after its bytes were written and the socket half-closed.
C27_SendSettlesOnce ==
  \A r \in Reqs :
    /\ SendsSettled(r) + (IF pr[r].sock = "none" THEN 0 ELSE 1)
         = SendsStarted(r)
    /\ pr[r].okSends <= pr[r].delivered
\* a request failed on a timeout, and the sockets it destroyed have all
\* emitted 'close' since
C27_Witness ==
  \E r \in Reqs :
    /\ pr[r].pc = "done" /\ pr[r].result.error = "timeout"
    /\ pr[r].failed > 0 /\ pr[r].closing = 0 /\ pr[r].okSends = 0

\* C28: a probe that is done has a result value, reachable only if its
\* socket connected and otherwise unreachable with an error text, and no
\* probe writes to its socket.
C28_ProbeAlwaysAnswers ==
  \A p \in ProbeIds :
    /\ probe[p].written = 0
    /\ probe[p].st = "done" =>
         /\ probe[p].outcome \in {"reachable", "unreachable"}
         /\ probe[p].outcome = "reachable" => probe[p].connected
         /\ probe[p].outcome = "unreachable" => probe[p].error # "none"

\* the rejected sends of the catch block of printViaIP: all the rejected
\* sends but the PDF send that led into the block
RawSendsFailed(r) ==
  pr[r].failed - (IF pr[r].render = "ok" /\ pr[r].fallbacks = 1 THEN 1 ELSE 0)

\* the print of the request has failed: the raw fallback of an ip request
\* lost a send, both commands of a local request failed, or a command of a
\* pdf request failed
PrintFailed(r) ==
  \/ pr[r].mode = "ip" /\ RawSendsFailed(r) > 0
  \/ pr[r].mode = "local" /\ pr[r].primary = "failed"
       /\ pr[r].fallback = "failed"
  \/ pr[r].mode = "pdf"
       /\ (pr[r].render = "failed" \/ pr[r].queue = "failed")

\* the request waits for an event that will settle its current step
StepPending(r) ==
  \/ pr[r].pc \in {"render", "primary", "rawText", "pdfRender", "pdfQueue"}
  \/ pr[r].pc \in {"pdfLoop", "rawLoop"} /\ pr[r].sock # "none"

\* C29: a request whose print has failed is answered with a failure result
\* that carries an error cause; every answer is a success or a failure; and
\* a request not yet answered is waiting for a command or a socket.
C29_FailuresAreAnswered ==
  \A r \in Reqs :
    /\ PrintFailed(r) =>
         /\ pr[r].pc = "done"
         /\ pr[r].result.status = "failure"
         /\ pr[r].result.error # "none"
    /\ pr[r].pc = "done" => pr[r].result.status \in {"success", "failure"}
    /\ pr[r].result.status = "failure" => PrintFailed(r)
    /\ InProgress(r) => StepPending(r)
\* an ip request failed on its sockets and a local request on both commands
C29_Witness ==
  \E r, q \in Reqs :
    /\ pr[r].mode = "ip" /\ pr[r].render = "failed"
    /\ pr[r].result = Result("failure", "none", "error")
    /\ pr[q].mode = "local" /\ pr[q].result.status = "failure"

\* C30: a tare-weight request answered 200 found its bill in status
\* gross_weighed, and one that found its bill pending or completed is
\* answered 400 and leaves the bill as it was.
C30_TareOnlyWhenGrossWeighed ==
  billResp.op = "tare" =>
    /\ billResp.code = 200 => billResp.before.status = "gross_weighed"
    /\ billResp.before.status \in {"pending", "completed"} =>
         /\ billResp.code = 400
         /\ bills[billResp.id] = billResp.before

\* C31: every stored bill with a gross and a tare value has netWeight equal
\* to gross minus tare.
C31_NetIsGrossMinusTare ==
  \A b \in BillIds :
    (bills[b].gross # NoValue /\ bills[b].tare # NoValue) =>
      bills[b].net = bills[b].gross - bills[b].tare
\* a general update that supplied its own netWeight was saved for a bill
\* that has both values
C31_Witness ==
  /\ billResp.op = "patch" /\ billResp.code = 200 /\ billResp.ownNet
  /\ bills[billResp.id].gross # NoValue /\ bills[billResp.id].tare # NoValue
  /\ bills[billResp.id].net # 1

\* the position of a status in the lifecycle
StatusRank(st) ==
  CASE st = "none" -> 0 [] st = "pending" -> 1 [] st = "gross_weighed" -> 2
    [] OTHER -> 3

\* C32: no request moves the status of a bill backwards along pending,
\* gross_weighed, completed.
C32_StatusMovesForward ==
  billResp.op \in {"gross", "tare", "patch"} =>
    StatusRank(bills[billResp.id].status)
      >= StatusRank(billResp.before.status)

\* C40: printedAt is written only for a request whose result reports
\* success.
C40_PrintedAtOnlyOnSuccess ==
  \A r \in Reqs :
    pr[r].printedAt = "written" => pr[r].result.status = "success"

\* C33: while the service is connected the reconnect timer is not running,
\* and the part of a poll tick that follows the availability query starts no
\* connect attempt when the service is connected.
C33_PollInertWhileConnected ==
  /\ [](isConnected => ~reconnectTimer)
  /\ [][(pollQuery # Null /\ pollQuery' = Null /\ isConnected) =>
          (tr' = tr /\ reconnectActive' = reconnectActive)]_vars

\* a step of initialize or reconnect, called through the settings route
ConfigStep == lastOp' \in {"postSerial", "reconnect"}

\* C34: if from some time on the configuration is left alone, then whenever
\* the service has been initialized and is not connected, it is connected at
\* some later time.
C34_EventuallyConnected ==
  <>[][~ConfigStep]_vars => ((started /\ ~isConnected) ~> isConnected)

\* C35: a data event whose line holds no number changes neither the current
\* weight, the stability buffer, the stable weight nor what was broadcast,
\* and leaves the connection flags, the port, the transports and the two
\* timers as they were.
C35_NoNumberLineIgnored ==
  [][lastOp' = "noNumber" =>
       UNCHANGED <<currentWeight, weightBuffer, stableWeight, lastUpdate,
                   bufSrc, inbox, pubLog, isConnected, isSimulation, port,
                   tr, reconnectActive, simInterval, reconnectTimer>>]_vars
\* a line without a number arrived after samples had been recorded
C35_Witness == lastOp = "noNumber" /\ Len(weightBuffer) >= 2

\* C36: whenever isConnected is true, neither the simulation timer nor the
\* reconnect timer is running, and isSimulation is false.
C36_FlagsMatchTimers ==
  isConnected => (~simInterval /\ ~reconnectTimer /\ ~isSimulation)
\* the service connected after the simulation had recorded samples
C36_Witness ==
  /\ isConnected
  /\ \E i \in DOMAIN bufSrc : bufSrc[i] = "sim"

\* a connect attempt has been started and its open callback has not run
AttemptInFlight == \E t \in Slots : tr[t].st = "opening"

\* C37: once the service has been initialized, whenever it is not connected
\* and no connect attempt is in flight, the reconnect timer is running.
C37_DisconnectedMeansPolling ==
  (started /\ ~isConnected /\ ~AttemptInFlight) => reconnectTimer
\* a poll found the port missing: the service is disconnected, nothing is in
\* flight and the timer keeps running
C37_Witness ==
  /\ started /\ ~isConnected /\ ~AttemptInFlight /\ reconnectTimer
  /\ lastOp = "event" /\ pollQuery = Null /\ port = 0
  /\ \A t \in Slots : tr[t].st = "none"

\* the transports that are open: their data, error and close handlers are
\* attached and they deliver lines
OpenTransports == {t \in Slots : tr[t].st = "open"}

\* C38: at most one transport is open, and an open transport is the one the
\* service refers to as its port.
C38_OneOpenTransport ==
  /\ Cardinality(OpenTransports) <= 1
  /\ \A t \in OpenTransports : port = t

\* transport t is not the one the service refers to, and that one is open
Replaced(t) == port # 0 /\ port # t /\ tr[port].st = "open"

\* C39: a close or error event of a transport that has been replaced leaves
\* isConnected, the reference to the current port, isSimulation and the
\* simulation timer as they were.
C39_StaleEventsIgnored ==
  [][\A t \in Slots :
       ((CloseEvent(t) \/ ErrorEvent(t)) /\ Replaced(t))
         => UNCHANGED <<isConnected, port, isSimulation, simInterval>>]_vars

====
